---------------------------- MODULE Spec2Model ----------------------------
(***************************************************************************)
(* Model of the EVSE bricklet control core: the IEC 61851 state machine    *)
(* (iec61851.c), the output safety controller (evse.c) and the charging    *)
(* slot table (charging_slot.c).                                           *)
(*                                                                         *)
(* Every C function is an operator from machine memory to machine memory;  *)
(* machine memory is the record Mem of the global objects evse, iec61851,  *)
(* ads1118, contactor_check and button, the relay pin, the CP PWM compare  *)
(* register and the millisecond clock.  The actions are evse_tick (the     *)
(* control loop's handler) and the writes of the collaborators that own    *)
(* the inputs (ADC, contactor check, button, API layer, clock).            *)
(*                                                                         *)
(* Not modelled: the LED calls (status sink), the lock motor (#if 0 in the *)
(* source), EEPROM load/save, and the two system-reset paths of evse_tick  *)
(* (factory reset, communication watchdog), which restart the firmware.    *)
(***************************************************************************)
EXTENDS Integers, Sequences, FiniteSets, TLC

VARIABLES
    evse,             \* EVSE evse (evse.c:43)
    iec61851,         \* IEC61851 iec61851 (iec61851.c:65)
    ads1118,          \* ADC results and invalid counters read by the core
    contactor_check,  \* contactor check error and its invalid counter
    button,           \* button.was_pressed latch and button.state
    charging_slot,    \* ChargingSlot charging_slot (charging_slot.c:33)
    relay,            \* level of EVSE_RELAY_PIN
    pwm,              \* compare value of the CP PWM slice
    now,              \* system_timer_get_ms()
    trace,            \* ghost: what the last evse_tick did
    op,               \* ghost: the last operation
    pre,              \* ghost: machine memory before the last evse_tick
    obs,              \* ghost: since when the ticks see a condition
    sweep,            \* ghost: the states visited by a resistance sweep
    call              \* ghost: argument and result of a function under test

vars == <<evse, iec61851, ads1118, contactor_check, button, charging_slot,
          relay, pwm, now, trace, op, pre, obs, sweep, call>>

---------------------------------------------------------------------------
(* Integer widths and the macros of util_definitions.h *)

(* uint16_t results are reduced modulo U16.  uint32_t values of the model  *)
(* stay below 2^31, where uint32_t arithmetic is exact; only the unsigned  *)
(* difference of two timestamps can wrap, see U32DiffAtLeast.                  *)
U16 == 65536

MIN(a, b) == IF a < b THEN a ELSE b
MAX(a, b) == IF a > b THEN a ELSE b
BETWEEN(lo, value, hi) == MIN(MAX(value, lo), hi)

---------------------------------------------------------------------------
(* Program constants *)

IEC61851_CP_RESISTANCE_STATE_A == 10000
IEC61851_CP_RESISTANCE_STATE_B == 1790
(* mutant: the C threshold of the comment above the defines (line 46) *)
IEC61851_CP_RESISTANCE_STATE_C_560 == 560
IEC61851_CP_RESISTANCE_STATE_C == 300
IEC61851_CP_RESISTANCE_STATE_D == 150

ID3_HOLD_MS == 500
CONTACTOR_TURN_OFF_MS == 3000
STARTUP_HOLD_MS == 12000
DUTY_CYCLE_16A == 266
JUMPER_INIT_SLEEP_MS == 50

IEC61851_STATES == {"A", "B", "C", "D", "EF"}

EVSE_CONFIG_JUMPERS ==
    {"CURRENT_6A", "CURRENT_10A", "CURRENT_13A", "CURRENT_16A", "CURRENT_20A",
     "CURRENT_25A", "CURRENT_32A", "SOFTWARE", "UNCONFIGURED"}

---------------------------------------------------------------------------
(* Machine memory and the ghost record of a tick *)

NoTrace ==
    [ran |-> "none", branch |-> "none",
     set_output |-> FALSE, cp_duty_cycle |-> 0, contactor |-> FALSE]

Mem ==
    [evse |-> evse, iec61851 |-> iec61851, ads1118 |-> ads1118,
     contactor_check |-> contactor_check, button |-> button,
     relay |-> relay, pwm |-> pwm, now |-> now, trace |-> NoTrace]

system_timer_get_ms(s) == s.now

(* (uint32_t)(a - b) >= n for a, b, n below 2^31: a negative difference   *)
(* wraps to a value of at least 2^31                                       *)
U32DiffAtLeast(a, b, n) == IF a - b < 0 THEN TRUE ELSE a - b >= n

system_timer_is_time_elapsed_ms(s, start_measurement, time_to_be_elapsed) ==
    U32DiffAtLeast(system_timer_get_ms(s), start_measurement, time_to_be_elapsed)

---------------------------------------------------------------------------
(* evse.c: pilot duty cycle *)

evse_get_cp_duty_cycle(s) == ((64000 - s.pwm) \div 64) % U16

(* mutant: the requested duty cycle is applied whatever the relay does *)
evse_set_cp_duty_cycle_as_requested(s, requested) ==
    IF evse_get_cp_duty_cycle(s) # requested
    THEN [s EXCEPT !.ads1118.cp_invalid_counter = MAX(2, @),
                   !.pwm = (64000 - requested * 64) % U16]
    ELSE s

evse_set_cp_duty_cycle(s, requested) ==
    LET contactor_active == s.relay
        use_16a == ~contactor_active /\ requested # 0 /\ requested # 1000
        duty_cycle == IF use_16a THEN DUTY_CYCLE_16A ELSE requested
        current_cp_duty_cycle == evse_get_cp_duty_cycle(s)
        new_cp_duty_cycle == (64000 - duty_cycle * 64) % U16
    IN  IF current_cp_duty_cycle # duty_cycle
        THEN [s EXCEPT !.ads1118.cp_invalid_counter = MAX(2, @),
                       !.pwm = new_cp_duty_cycle]
        ELSE s

(* mutant: the relay switch leaves the measurement counters alone *)
evse_switch_relay_no_blackout(s, contactor) == [s EXCEPT !.relay = contactor]

(* evse.c: the relay switch with its measurement blackout (lines 92-105) *)
evse_switch_relay(s, contactor) ==
    [s EXCEPT !.ads1118.cp_invalid_counter = MAX(4, @),
              !.ads1118.pp_invalid_counter = MAX(4, @),
              !.contactor_check.invalid_counter = MAX(5, @),
              !.relay = contactor]

(* mutant: the deferral has no time limit *)
evse_defer_turn_off_forever(s) ==
    IF s.ads1118.cp_pe_resistance <= IEC61851_CP_RESISTANCE_STATE_B
    THEN IF s.evse.contactor_turn_off_time = 0
         THEN [return |-> TRUE,
               s |-> [s EXCEPT !.evse.contactor_turn_off_time =
                                   system_timer_get_ms(s)]]
         ELSE [return |-> TRUE, s |-> s]
    ELSE [return |-> FALSE,
          s |-> [s EXCEPT !.evse.contactor_turn_off_time = 0]]

(* evse.c: the switch-off deferral (lines 61-89); the result says whether  *)
(* evse_set_output returns before the relay is switched                    *)
evse_defer_turn_off(s) ==
    IF s.ads1118.cp_pe_resistance <= IEC61851_CP_RESISTANCE_STATE_B
    THEN IF s.evse.contactor_turn_off_time = 0
         THEN [return |-> TRUE,
               s |-> [s EXCEPT !.evse.contactor_turn_off_time =
                                   system_timer_get_ms(s)]]
         ELSE IF system_timer_is_time_elapsed_ms(
                     s, s.evse.contactor_turn_off_time, CONTACTOR_TURN_OFF_MS)
              THEN [return |-> FALSE,
                    s |-> [s EXCEPT !.evse.contactor_turn_off_time = 0]]
              ELSE [return |-> TRUE, s |-> s]
    ELSE [return |-> FALSE,
          s |-> [s EXCEPT !.evse.contactor_turn_off_time = 0]]

(* mutant: a deferred switch-off returns before the duty cycle is applied *)
evse_set_output_duty_last(s0, cp_duty_cycle, contactor) ==
    LET s1 == [s0 EXCEPT !.trace.set_output = TRUE,
                         !.trace.cp_duty_cycle = cp_duty_cycle,
                         !.trace.contactor = contactor]
    IN  IF s1.relay # contactor
        THEN IF (cp_duty_cycle = 0 \/ cp_duty_cycle = 1000) /\ ~contactor
             THEN LET d == evse_defer_turn_off(s1)
                  IN  IF d.return THEN d.s
                      ELSE evse_switch_relay(
                               evse_set_cp_duty_cycle(d.s, cp_duty_cycle),
                               contactor)
             ELSE evse_switch_relay(
                      evse_set_cp_duty_cycle(s1, cp_duty_cycle), contactor)
        ELSE evse_set_cp_duty_cycle(s1, cp_duty_cycle)

evse_set_output(s0, cp_duty_cycle, contactor) ==
    LET s1 == [s0 EXCEPT !.trace.set_output = TRUE,
                         !.trace.cp_duty_cycle = cp_duty_cycle,
                         !.trace.contactor = contactor]
        s2 == evse_set_cp_duty_cycle(s1, cp_duty_cycle)
    IN  IF s2.relay # contactor
        THEN IF (cp_duty_cycle = 0 \/ cp_duty_cycle = 1000) /\ ~contactor
             THEN LET d == evse_defer_turn_off(s2)
                  IN  IF d.return THEN d.s
                      ELSE evse_switch_relay(d.s, contactor)
             ELSE evse_switch_relay(s2, contactor)
        ELSE s2

---------------------------------------------------------------------------
(* button.c (not part of the sources at hand): button_reset releases the   *)
(* was_pressed latch once the button itself is released and reports        *)
(* whether it did                                                          *)

button_reset(s) ==
    IF s.button.was_pressed /\ s.button.state # "PRESSED"
    THEN [s EXCEPT !.button.was_pressed = FALSE]
    ELSE s

---------------------------------------------------------------------------
(* iec61851.c *)

(* mutant: the managed current survives the change to A *)
iec61851_set_state_keeps_current(s, state) ==
    IF state # s.iec61851.state
    THEN LET s1 == IF state = "C" /\ s.evse.charging_time = 0
                   THEN [s EXCEPT !.evse.charging_time = system_timer_get_ms(s)]
                   ELSE s
             s2 == IF s1.iec61851.state # "A" /\ state = "A"
                      /\ ~s1.evse.charging_autostart
                   THEN [s1 EXCEPT !.button.was_pressed = TRUE]
                   ELSE s1
         IN  [s2 EXCEPT !.iec61851.state = state,
                        !.iec61851.last_state_change = system_timer_get_ms(s2)]
    ELSE s

iec61851_set_state(s, state) ==
    IF state # s.iec61851.state
    THEN LET s1 == IF state = "C" /\ s.evse.charging_time = 0
                   THEN [s EXCEPT !.evse.charging_time = system_timer_get_ms(s)]
                   ELSE s
             s2 == IF s1.iec61851.state # "A" /\ state = "A"
                   THEN LET s1a == IF ~s1.evse.charging_autostart
                                   THEN [s1 EXCEPT !.button.was_pressed = TRUE]
                                   ELSE s1
                        IN  IF s1a.evse.managed
                            THEN [s1a EXCEPT !.evse.max_managed_current = 0]
                            ELSE s1a
                   ELSE s1
         IN  [s2 EXCEPT !.iec61851.state = state,
                        !.iec61851.last_state_change = system_timer_get_ms(s2)]
    ELSE s

iec61851_get_ma_from_pp_resistance(s) ==
    IF s.ads1118.pp_pe_resistance >= 1000 THEN 13000
    ELSE IF s.ads1118.pp_pe_resistance >= 330 THEN 20000
    ELSE IF s.ads1118.pp_pe_resistance >= 150 THEN 32000
    ELSE 64000

iec61851_get_ma_from_jumper(s) ==
    CASE s.evse.config_jumper_current = "CURRENT_6A"  -> 6000
      [] s.evse.config_jumper_current = "CURRENT_10A" -> 10000
      [] s.evse.config_jumper_current = "CURRENT_13A" -> 13000
      [] s.evse.config_jumper_current = "CURRENT_16A" -> 16000
      [] s.evse.config_jumper_current = "CURRENT_20A" -> 20000
      [] s.evse.config_jumper_current = "CURRENT_25A" -> 25000
      [] s.evse.config_jumper_current = "CURRENT_32A" -> 32000
      [] s.evse.config_jumper_current = "SOFTWARE" ->
             s.evse.config_jumper_current_software
      [] OTHER -> 6000

iec61851_get_max_ma(s) ==
    LET max_conf_pp_jumper ==
            MIN(s.evse.max_current_configured,
                MIN(iec61851_get_ma_from_pp_resistance(s),
                    iec61851_get_ma_from_jumper(s)))
    IN  IF s.evse.managed
        THEN MIN(max_conf_pp_jumper, s.evse.max_managed_current)
        ELSE max_conf_pp_jumper

(* mutant: 51000 mA already falls into the upper range *)
iec61851_get_duty_cycle_for_ma_below(ma) ==
    IF ma = 0 THEN 1000
    ELSE LET duty_cycle == IF ma < 51000
                           THEN ma \div 60
                           ELSE ma \div 250 + 640
         IN  BETWEEN(80, duty_cycle, 1000) % U16

iec61851_get_duty_cycle_for_ma(ma) ==
    IF ma = 0 THEN 1000
    ELSE LET duty_cycle == IF ma <= 51000
                           THEN ma \div 60
                           ELSE ma \div 250 + 640
         IN  BETWEEN(80, duty_cycle, 1000) % U16

(* mutant: the latch is reset whatever the CP resistance is *)
iec61851_state_a_always_reset(s) ==
    button_reset(evse_set_output(s, 1000, FALSE))

iec61851_state_a(s) ==
    LET s1 == evse_set_output(s, 1000, FALSE)
    IN  IF s1.ads1118.cp_pe_resistance > IEC61851_CP_RESISTANCE_STATE_A
        THEN button_reset(s1)
        ELSE s1

(* mutant: state B closes the contactor *)
iec61851_state_b_contactor(s) ==
    LET ma == iec61851_get_max_ma(s)
    IN  evse_set_output(s, iec61851_get_duty_cycle_for_ma(ma), TRUE)

iec61851_state_b(s) ==
    LET ma == iec61851_get_max_ma(s)
    IN  evse_set_output(s, iec61851_get_duty_cycle_for_ma(ma), FALSE)

iec61851_state_c(s) ==
    LET ma == iec61851_get_max_ma(s)
    IN  evse_set_output(s, iec61851_get_duty_cycle_for_ma(ma), TRUE)

(* mutant: state D signals the allowed current like state B *)
iec61851_state_d_like_b(s) ==
    evse_set_output(s, iec61851_get_duty_cycle_for_ma(iec61851_get_max_ma(s)),
                    FALSE)

iec61851_state_d(s) == evse_set_output(s, 1000, FALSE)

(* mutant: the error state applies 0% instead of 100% *)
iec61851_state_ef_zero(s) == evse_set_output(s, 0, FALSE)

iec61851_state_ef(s) == evse_set_output(s, 1000, FALSE)

(* the switch over iec61851.state at the end of iec61851_tick *)
iec61851_actuate(s) ==
    CASE s.iec61851.state = "A"  -> iec61851_state_a(s)
      [] s.iec61851.state = "B"  -> iec61851_state_b(s)
      [] s.iec61851.state = "C"  -> iec61851_state_c(s)
      [] s.iec61851.state = "D"  -> iec61851_state_d(s)
      [] s.iec61851.state = "EF" -> iec61851_state_ef(s)

(* mutant: the state changes to A without the hold time *)
iec61851_id3_hold_no_wait(s) ==
    IF s.iec61851.id3_mode_time = 0
    THEN iec61851_set_state(
             [s EXCEPT !.iec61851.id3_mode_time = system_timer_get_ms(s)], "A")
    ELSE iec61851_set_state(s, "A")

(* mutant: the hold time is recorded and never acted upon *)
iec61851_id3_hold_never(s) ==
    IF s.iec61851.id3_mode_time = 0
    THEN [s EXCEPT !.iec61851.id3_mode_time = system_timer_get_ms(s)]
    ELSE s

(* a reading above three times the A threshold in ID.3 mode (iec61851.c   *)
(* lines 236-243)                                                          *)
iec61851_id3_hold(s) ==
    IF s.iec61851.id3_mode_time = 0
    THEN [s EXCEPT !.iec61851.id3_mode_time = system_timer_get_ms(s)]
    ELSE IF system_timer_is_time_elapsed_ms(
                s, s.iec61851.id3_mode_time, ID3_HOLD_MS)
         THEN iec61851_set_state(s, "A")
         ELSE s

(* mutant: the C band gives C whatever the managed current is *)
iec61851_c_band_unmanaged(s) == iec61851_set_state(s, "C")

(* a reading in the C band (iec61851.c lines 249-253) *)
iec61851_c_band(s) ==
    IF s.evse.managed /\ s.evse.max_managed_current = 0
    THEN iec61851_set_state(s, "B")
    ELSE iec61851_set_state(s, "C")

(* the ID.3 hold and the resistance bands (iec61851.c lines 229-260) *)
iec61851_evaluate(s0) ==
    LET current_cp_duty_cycle == evse_get_cp_duty_cycle(s0)
        id3_mode == current_cp_duty_cycle # 1000 /\ ~s0.relay
        s == IF ~id3_mode THEN [s0 EXCEPT !.iec61851.id3_mode_time = 0] ELSE s0
        r == s.ads1118.cp_pe_resistance
    IN  IF id3_mode /\ r > IEC61851_CP_RESISTANCE_STATE_A * 3
        THEN iec61851_id3_hold(s)
        ELSE IF ~id3_mode /\ r > IEC61851_CP_RESISTANCE_STATE_A
        THEN iec61851_set_state(s, "A")
        ELSE IF r > IEC61851_CP_RESISTANCE_STATE_B
        THEN iec61851_set_state(s, "B")
        ELSE IF r > IEC61851_CP_RESISTANCE_STATE_C
        THEN iec61851_c_band(s)
        ELSE IF r > IEC61851_CP_RESISTANCE_STATE_D
        THEN iec61851_set_state(s, "D")
        ELSE iec61851_set_state(s, "EF")

(* mutant: the button latch is looked at before the jumper *)
iec61851_branch_button_first(s) ==
    IF s.contactor_check.error # 0 THEN "fault"
    ELSE IF s.button.was_pressed THEN "button"
    ELSE IF s.evse.config_jumper_current = "UNCONFIGURED" THEN "unconfigured"
    ELSE IF s.ads1118.cp_invalid_counter > 0 THEN "invalid"
    ELSE "evaluated"

(* mutant: the measurements are evaluated while they are invalid *)
iec61851_branch_no_guard(s) ==
    IF s.contactor_check.error # 0 THEN "fault"
    ELSE IF s.evse.config_jumper_current = "UNCONFIGURED" THEN "unconfigured"
    ELSE IF s.button.was_pressed THEN "button"
    ELSE "evaluated"

(* the if-chain of iec61851_tick (lines 201-220) *)
iec61851_branch(s) ==
    IF s.contactor_check.error # 0 THEN "fault"
    ELSE IF s.evse.config_jumper_current = "UNCONFIGURED" THEN "unconfigured"
    ELSE IF s.button.was_pressed THEN "button"
    ELSE IF s.ads1118.cp_invalid_counter > 0 THEN "invalid"
    ELSE "evaluated"

iec61851_tick(s0) ==
    IF s0.evse.calibration_state # 0
    THEN [s0 EXCEPT !.trace.branch = "calibration"]
    ELSE LET branch == iec61851_branch(s0)
             s == [s0 EXCEPT !.trace.branch = branch]
         IN  CASE branch = "fault" ->
                      iec61851_actuate(iec61851_set_state(s, "EF"))
               [] branch = "unconfigured" ->
                      iec61851_actuate(iec61851_set_state(s, "EF"))
               [] branch = "button" ->
                      iec61851_actuate(iec61851_set_state(s, "A"))
               [] branch = "invalid" -> s
               [] branch = "evaluated" ->
                      iec61851_actuate(iec61851_evaluate(s))

---------------------------------------------------------------------------
(* evse.c: evse_tick *)

(* mutant: the state machine runs from the first tick on *)
evse_tick_no_hold(s) ==
    LET s1 == [s EXCEPT !.evse.startup_time = 0]
    IN  IF s1.evse.calibration_state # 0
        THEN [s1 EXCEPT !.trace.ran = "calibration"]
        ELSE IF s1.evse.calibration_error
        THEN [s1 EXCEPT !.trace.ran = "calibration_error"]
        ELSE iec61851_tick([s1 EXCEPT !.trace.ran = "iec61851_tick"])

(* mutant: a running calibration does not stop the state machine *)
evse_tick_no_freeze(s) ==
    IF s.evse.startup_time # 0
       /\ ~system_timer_is_time_elapsed_ms(s, s.evse.startup_time, STARTUP_HOLD_MS)
    THEN [s EXCEPT !.trace.ran = "startup"]
    ELSE LET s1 == [s EXCEPT !.evse.startup_time = 0,
                             !.evse.calibration_state = 0,
                             !.trace.ran = "iec61851_tick"]
             t == IF s.evse.calibration_error
                  THEN [s1 EXCEPT !.trace.ran = "calibration_error"]
                  ELSE iec61851_tick(s1)
         IN  [t EXCEPT !.evse.calibration_state = s.evse.calibration_state]

evse_tick(s) ==
    IF s.evse.startup_time # 0
       /\ ~system_timer_is_time_elapsed_ms(s, s.evse.startup_time, STARTUP_HOLD_MS)
    THEN [s EXCEPT !.trace.ran = "startup"]
    ELSE LET s1 == IF s.evse.startup_time # 0
                   THEN [s EXCEPT !.evse.startup_time = 0]
                   ELSE s
         IN  IF s1.evse.calibration_state # 0
             THEN [s1 EXCEPT !.trace.ran = "calibration"]
             ELSE IF s1.evse.calibration_error
             THEN [s1 EXCEPT !.trace.ran = "calibration_error"]
             ELSE iec61851_tick([s1 EXCEPT !.trace.ran = "iec61851_tick"])

---------------------------------------------------------------------------
(* charging_slot.c *)

CHARGING_SLOT_NUM == 20
CHARGING_SLOT_DEFAULT_NUM == 18
CHARGING_SLOT_INCOMING_CABLE == 0
CHARGING_SLOT_OUTGOING_CABLE == 1
CHARGING_SLOT_BUTTON == 4
CHARGING_SLOT_LOAD_MANAGEMENT == 7

SlotIndex == 0 .. (CHARGING_SLOT_NUM - 1)

charging_slot_get_ma_incoming_cable(s) ==
    CASE s.evse.config_jumper_current = "CURRENT_6A"  -> 6000
      [] s.evse.config_jumper_current = "CURRENT_10A" -> 10000
      [] s.evse.config_jumper_current = "CURRENT_13A" -> 13000
      [] s.evse.config_jumper_current = "CURRENT_16A" -> 16000
      [] s.evse.config_jumper_current = "CURRENT_20A" -> 20000
      [] s.evse.config_jumper_current = "CURRENT_25A" -> 25000
      [] s.evse.config_jumper_current = "CURRENT_32A" -> 32000
      [] s.evse.config_jumper_current = "SOFTWARE" ->
             s.evse.config_jumper_current_software
      [] OTHER -> 6000

(* evse_load_config without a stored slot table (evse.c lines 349-363) *)
charging_slot_defaults(legacy_managed) ==
    [max_current_default |->
         [i \in 0 .. (CHARGING_SLOT_DEFAULT_NUM - 1) |->
             IF i = CHARGING_SLOT_LOAD_MANAGEMENT - 2 THEN 0 ELSE 32000],
     active_default |->
         [i \in 0 .. (CHARGING_SLOT_DEFAULT_NUM - 1) |->
             IF i = CHARGING_SLOT_BUTTON - 2 THEN TRUE
             ELSE IF i = CHARGING_SLOT_LOAD_MANAGEMENT - 2 THEN legacy_managed
             ELSE FALSE],
     clear_on_disconnect_default |->
         [i \in 0 .. (CHARGING_SLOT_DEFAULT_NUM - 1) |->
             IF i = CHARGING_SLOT_LOAD_MANAGEMENT - 2 THEN legacy_managed
             ELSE FALSE]]

charging_slot_init(d, s) ==
    [max_current |->
         [i \in SlotIndex |->
             IF i = CHARGING_SLOT_INCOMING_CABLE
             THEN charging_slot_get_ma_incoming_cable(s)
             ELSE IF i = CHARGING_SLOT_OUTGOING_CABLE
             THEN iec61851_get_ma_from_pp_resistance(s)
             ELSE d.max_current_default[i - 2]],
     active |->
         [i \in SlotIndex |->
             IF i < 2 THEN TRUE ELSE d.active_default[i - 2]],
     clear_on_disconnect |->
         [i \in SlotIndex |->
             IF i < 2 THEN FALSE ELSE d.clear_on_disconnect_default[i - 2]]]

charging_slot_tick(cs, s) ==
    [cs EXCEPT !.max_current[CHARGING_SLOT_OUTGOING_CABLE] =
                   iec61851_get_ma_from_pp_resistance(s)]

RECURSIVE charging_slot_min_loop(_, _, _)
charging_slot_min_loop(cs, i, max_current) ==
    IF i = CHARGING_SLOT_NUM THEN max_current
    ELSE charging_slot_min_loop(
             cs, i + 1,
             IF cs.active[i]
             THEN MIN(max_current, cs.max_current[i]) % U16
             ELSE max_current)

(* mutant: the loop starts behind the incoming cable slot *)
charging_slot_get_max_current_from_1(cs) ==
    LET max_current == charging_slot_min_loop(cs, 1, 65535)
    IN  IF max_current = 65535 THEN 0 ELSE max_current

(* mutant: the button slot is left out of the minimum *)
charging_slot_get_max_current_without_button(cs) ==
    LET max_current ==
            charging_slot_min_loop(
                [cs EXCEPT !.active[CHARGING_SLOT_BUTTON] = FALSE], 0, 65535)
    IN  IF max_current = 65535 THEN 0 ELSE max_current

charging_slot_get_max_current(cs) ==
    LET max_current == charging_slot_min_loop(cs, 0, 65535)
    IN  IF max_current = 65535 THEN 0 ELSE max_current

(* mutant: the slots are chosen by their active flag *)
charging_slot_handle_disconnect_active(cs) ==
    [cs EXCEPT !.max_current =
        [i \in SlotIndex |->
            IF cs.active[i] THEN 0 ELSE cs.max_current[i]]]

charging_slot_handle_disconnect(cs) ==
    [cs EXCEPT !.max_current =
        [i \in SlotIndex |->
            IF cs.clear_on_disconnect[i] THEN 0 ELSE cs.max_current[i]]]

charging_slot_stop_charging_by_button(cs) ==
    [cs EXCEPT !.max_current[CHARGING_SLOT_BUTTON] = 0]

(* mutant: the button latch is not looked at *)
charging_slot_start_charging_by_button_unlatched(cs, s) ==
    IF cs.clear_on_disconnect[CHARGING_SLOT_BUTTON]
    THEN cs
    ELSE [cs EXCEPT !.max_current[CHARGING_SLOT_BUTTON] = 32000]

charging_slot_start_charging_by_button(cs, s) ==
    IF cs.clear_on_disconnect[CHARGING_SLOT_BUTTON] \/ s.button.was_pressed
    THEN cs
    ELSE [cs EXCEPT !.max_current[CHARGING_SLOT_BUTTON] = 32000]

---------------------------------------------------------------------------
(* State after evse_init, iec61851_init and charging_slot_init.  The two   *)
(* sleeps of evse_init_jumper precede the reading of evse.startup_time, so *)
(* startup_time is never the "not set" value 0.  Fields evse_init does not *)
(* write are the zero-initialised globals.                                 *)

StartupTime == 2 * JUMPER_INIT_SLEEP_MS

InitEvse(jumper) ==
    [startup_time |-> StartupTime,
     calibration_state |-> 0,
     calibration_error |-> FALSE,
     config_jumper_current |-> jumper,
     config_jumper_current_software |-> 6000,
     max_current_configured |-> 32000,
     managed |-> FALSE,
     max_managed_current |-> 0,
     charging_autostart |-> FALSE,
     charging_time |-> 0,
     contactor_turn_off_time |-> 0,
     legacy_managed |-> FALSE]

InitMem(jumper, cp, pp, t0) ==
    [evse |-> InitEvse(jumper),
     iec61851 |-> [state |-> "A", last_state_change |-> StartupTime,
                   id3_mode_time |-> 0],
     ads1118 |-> [cp_pe_resistance |-> cp, pp_pe_resistance |-> pp,
                  cp_invalid_counter |-> 0, pp_invalid_counter |-> 0],
     contactor_check |-> [error |-> 0, invalid_counter |-> 0],
     button |-> [was_pressed |-> FALSE, state |-> "RELEASED"],
     relay |-> FALSE,
     pwm |-> 0,
     now |-> t0,
     trace |-> NoTrace]

NoPre == InitMem("UNCONFIGURED", 0, 0, 0)
NoCall == [fn |-> "none", arg |-> 0, ret |-> 0]
NoObs ==
    [track |-> {}, off_since |-> -1, spike_seen |-> -1, spikes |-> 0,
     above_seen |-> -1]
Observe(names) == [NoObs EXCEPT !.track = names]
NoSweep == [on |-> FALSE, pos |-> 0, id3 |-> FALSE, visited |-> <<>>]

InitMachineCall(m, observed, c) ==
    /\ evse = m.evse
    /\ iec61851 = m.iec61851
    /\ ads1118 = m.ads1118
    /\ contactor_check = m.contactor_check
    /\ button = m.button
    /\ relay = m.relay
    /\ pwm = m.pwm
    /\ now = m.now
    /\ charging_slot =
           charging_slot_init(charging_slot_defaults(m.evse.legacy_managed), m)
    /\ trace = NoTrace
    /\ op = "init"
    /\ pre = NoPre
    /\ obs = Observe(observed)
    /\ sweep = NoSweep
    /\ call = c

InitMachine(m, observed) == InitMachineCall(m, observed, NoCall)

---------------------------------------------------------------------------
(* Ghost observations of a tick.  m is machine memory before the tick, t   *)
(* machine memory after it.                                                *)

Evaluated(t) == t.trace.branch = "evaluated"

(* the pilot is active and the contactor open *)
PilotActiveRelayOff(m) == evse_get_cp_duty_cycle(m) # 1000 /\ ~m.relay

(* the tick asks to switch the engaged relay off with an idle pilot *)
TurnOffRequest(m, t) ==
    /\ m.relay
    /\ t.trace.set_output
    /\ ~t.trace.contactor
    /\ t.trace.cp_duty_cycle \in {0, 1000}

Since(old, m) == IF old >= 0 THEN old ELSE m.now

ObsAfter(m, t) ==
    LET r == m.ads1118.cp_pe_resistance
        spike == PilotActiveRelayOff(m) /\ r > 3 * IEC61851_CP_RESISTANCE_STATE_A
    IN  [track |-> obs.track,
         off_since |->
             IF "off" \notin obs.track THEN obs.off_since
             ELSE IF TurnOffRequest(m, t) THEN Since(obs.off_since, m)
             ELSE IF t.trace.set_output THEN -1
             ELSE obs.off_since,
         spike_seen |->
             IF "spike" \notin obs.track \/ ~Evaluated(t) THEN obs.spike_seen
             ELSE IF spike THEN Since(obs.spike_seen, m)
             ELSE -1,
         spikes |->
             IF "spike" \notin obs.track \/ ~Evaluated(t) THEN obs.spikes
             ELSE IF ~PilotActiveRelayOff(m) THEN 0
             ELSE IF spike /\ obs.spike_seen < 0 THEN MIN(obs.spikes + 1, 2)
             ELSE obs.spikes,
         above_seen |->
             IF "above" \notin obs.track \/ ~Evaluated(t) THEN obs.above_seen
             ELSE IF r > IEC61851_CP_RESISTANCE_STATE_A
             THEN Since(obs.above_seen, m)
             ELSE -1]

SweepAfter(t) ==
    IF sweep.on /\ Evaluated(t)
       /\ (sweep.visited = <<>>
           \/ sweep.visited[Len(sweep.visited)] # t.iec61851.state)
    THEN [sweep EXCEPT !.visited = Append(@, t.iec61851.state)]
    ELSE sweep

---------------------------------------------------------------------------
(* Actions *)

Machine(t) ==
    /\ evse' = t.evse
    /\ iec61851' = t.iec61851
    /\ ads1118' = t.ads1118
    /\ contactor_check' = t.contactor_check
    /\ button' = t.button
    /\ relay' = t.relay
    /\ pwm' = t.pwm
    /\ now' = t.now

(* a write of a collaborator between two ticks *)
Write(t) ==
    /\ t # Mem
    /\ Machine(t)
    /\ trace' = NoTrace
    /\ op' = "write"
    /\ pre' = NoPre
    /\ UNCHANGED <<charging_slot, obs, sweep, call>>

(* the control loop calls evse_tick *)
EvseTick ==
    LET t == evse_tick(Mem)
    IN  /\ Machine(t)
        /\ trace' = t.trace
        /\ op' = "evse_tick"
        /\ pre' = Mem
        /\ obs' = ObsAfter(Mem, t)
        /\ sweep' = SweepAfter(t)
        /\ UNCHANGED <<charging_slot, call>>

(* the ADC driver stores a new CP/PE resistance *)
AdcCp(values) ==
    \E r \in values : Write([Mem EXCEPT !.ads1118.cp_pe_resistance = r])

(* one sample period: the drivers count their invalid counters down *)
Dec(n) == IF n > 0 THEN n - 1 ELSE 0

SamplePeriod ==
    Write([Mem EXCEPT !.ads1118.cp_invalid_counter = Dec(@),
                      !.ads1118.pp_invalid_counter = Dec(@),
                      !.contactor_check.invalid_counter = Dec(@)])

(* as many sample periods as it takes to count all three down to zero *)
SamplePeriods ==
    Write([Mem EXCEPT !.ads1118.cp_invalid_counter = 0,
                      !.ads1118.pp_invalid_counter = 0,
                      !.contactor_check.invalid_counter = 0])

(* the contactor check raises or clears its error *)
ContactorCheck ==
    \E e \in {0, 1} : Write([Mem EXCEPT !.contactor_check.error = e])

(* the button driver: a press sets the latch, a release leaves it *)
ButtonPress ==
    /\ button.state = "RELEASED"
    /\ Write([Mem EXCEPT !.button = [was_pressed |-> TRUE, state |-> "PRESSED"]])

ButtonRelease ==
    /\ button.state = "PRESSED"
    /\ Write([Mem EXCEPT !.button.state = "RELEASED"])

(* the API layer writes the configuration fields of evse *)
ApiManaged(currents) ==
    \E m \in BOOLEAN, c \in currents :
        Write([Mem EXCEPT !.evse.managed = m, !.evse.max_managed_current = c])

ApiAutostart ==
    \E a \in BOOLEAN : Write([Mem EXCEPT !.evse.charging_autostart = a])

ApiCalibration ==
    \E c \in {0, 1} : Write([Mem EXCEPT !.evse.calibration_state = c])

Jumper(values) ==
    \E j \in values : Write([Mem EXCEPT !.evse.config_jumper_current = j])

(* the millisecond clock *)
AdvanceTime(steps, horizon) ==
    \E d \in steps :
        /\ now + d <= horizon
        /\ Write([Mem EXCEPT !.now = now + d])

---------------------------------------------------------------------------
(* Spec: the control loop after the startup hold, with the inputs of the   *)
(* state machine changing between ticks                                    *)

CpBands == {150, 300, 1790, 10000, 30001}
Jumpers == {"CURRENT_6A", "UNCONFIGURED"}
TimeStep == 3000
MaxSteps == 1
RunTime == StartupTime + STARTUP_HOLD_MS

Init == InitMachine(InitMem("CURRENT_6A", 30001, 220, RunTime), {"off"})

Next ==
    \/ EvseTick
    \/ AdcCp(CpBands)
    \/ SamplePeriods
    \/ ContactorCheck
    \/ ButtonPress
    \/ ButtonRelease
    \/ Jumper(Jumpers)
    \/ AdvanceTime({TimeStep}, RunTime + MaxSteps * TimeStep)

Spec == Init /\ [][Next]_vars

---------------------------------------------------------------------------
(* Properties of the control loop (Spec) *)

Ticked == op = "evse_tick"
IecTick == Ticked /\ trace.ran = "iec61851_tick"
CpResistance == ads1118.cp_pe_resistance
Requested(duty, contactor) ==
    /\ trace.set_output
    /\ trace.cp_duty_cycle = duty
    /\ trace.contactor = contactor

\* C1: while every tick asks to switch the engaged relay off with duty 0 or
\* 1000, the relay stays engaged as long as the CP resistance is <= 1790 ohm
\* and fewer than 3000 ms have passed since this request began, and it is
\* off after the first such tick at or after 3000 ms.
C1_DeferralWindow ==
    (Ticked /\ TurnOffRequest(pre, [trace |-> trace]))
        => /\ (CpResistance <= 1790 /\ now - obs.off_since < 3000) => relay
           /\ (now - obs.off_since >= 3000) => ~relay

\* C2: a tick with calibration inactive and a contactor-check error ends in
\* state EF and requests (1000, off), whatever the state, jumper, button
\* latch, CP resistance and CP invalid counter were.
C2_FaultPath ==
    (IecTick /\ pre.evse.calibration_state = 0 /\ pre.contactor_check.error # 0)
        => iec61851.state = "EF" /\ Requested(1000, FALSE)

C2_Witness ==
    /\ IecTick
    /\ pre.contactor_check.error # 0
    /\ pre.iec61851.state = "C"
    /\ pre.button.was_pressed
    /\ pre.ads1118.cp_invalid_counter > 0
    /\ iec61851.state = "EF"

(* the band of a CP resistance, for a pilot that is idle *)
BandOf(r) ==
    IF r > 10000 THEN "A"
    ELSE IF r > 1790 THEN "B"
    ELSE IF r > 300 THEN "C"
    ELSE IF r > 150 THEN "D"
    ELSE "EF"

\* C3: with no fault and calibration inactive, a tick with an unconfigured
\* jumper ends in state EF whatever the CP resistance, button latch and CP
\* invalid counter are; the evaluated tick that follows with a valid
\* jumper takes the state from the CP resistance.
C3_Unconfigured ==
    /\ (IecTick /\ pre.evse.calibration_state = 0 /\ pre.contactor_check.error = 0
            /\ pre.evse.config_jumper_current = "UNCONFIGURED")
           => iec61851.state = "EF"
    /\ (IecTick /\ pre.evse.calibration_state = 0 /\ pre.contactor_check.error = 0
            /\ pre.evse.config_jumper_current # "UNCONFIGURED"
            /\ ~pre.button.was_pressed /\ pre.ads1118.cp_invalid_counter = 0
            /\ pre.iec61851.state = "EF")
           => iec61851.state =
                  IF BandOf(CpResistance) = "C" /\ pre.evse.managed
                        /\ pre.evse.max_managed_current = 0
                  THEN "B" ELSE BandOf(CpResistance)

C3_Witness ==
    /\ IecTick
    /\ pre.evse.config_jumper_current = "UNCONFIGURED"
    /\ pre.contactor_check.error = 0
    /\ pre.iec61851.state = "C"
    /\ CpResistance = 1790
    /\ iec61851.state = "EF"

\* C6: a tick that performs actuation requests (1000, off) in states A, D
\* and EF and contactor off in state B; contactor on is requested in state
\* C only.
C6_OutputIntent ==
    (Ticked /\ trace.set_output)
        => /\ iec61851.state \in {"A", "D", "EF"} => Requested(1000, FALSE)
           /\ iec61851.state = "B" => ~trace.contactor
           /\ trace.contactor => iec61851.state = "C"

C6_Witness ==
    /\ Ticked
    /\ iec61851.state = "C"
    /\ trace.set_output
    /\ trace.contactor
    /\ relay

---------------------------------------------------------------------------
(* SpecFn: iec61851_get_duty_cycle_for_ma applied to a current drawn in    *)
(* Init                                                                    *)

MaxKiloAmp == 100
MaSamples ==
    {k * 1000 : k \in 0 .. MaxKiloAmp}
        \cup {1, 59, 60, 4799, 4800, 4860, 50999, 51001, 51250, 89999, 90001}

Argument(ma) == [fn |-> "argument", arg |-> ma, ret |-> 0]

InitFn ==
    \E ma \in MaSamples :
        InitMachineCall(InitMem("CURRENT_6A", 30001, 220, RunTime), {},
                        Argument(ma))

CallDutyCycleForMa ==
    /\ call.fn = "argument"
    /\ call' = [fn |-> "iec61851_get_duty_cycle_for_ma",
                arg |-> call.arg,
                ret |-> iec61851_get_duty_cycle_for_ma(call.arg)]
    /\ UNCHANGED <<evse, iec61851, ads1118, contactor_check, button,
                   charging_slot, relay, pwm, now, trace, op, pre, obs, sweep>>

NextFn == CallDutyCycleForMa

SpecFn == InitFn /\ [][NextFn]_vars

Encoded(ma, permille) ==
    call.fn = "iec61851_get_duty_cycle_for_ma" /\ call.arg = ma
        => call.ret = permille

\* C7 as stated: encode(0) = 1000, encode(6000) = 100, encode(51000) = 850,
\* encode(51001) = 844 and encode(80000) = 1000, and every nonzero current
\* encodes into [80, 1000].
C7_EncodingAsStated ==
    /\ Encoded(0, 1000)
    /\ Encoded(6000, 100)
    /\ Encoded(51000, 850)
    /\ Encoded(51001, 844)
    /\ Encoded(80000, 1000)
    /\ (call.fn = "iec61851_get_duty_cycle_for_ma" /\ call.arg # 0)
           => call.ret \in 80 .. 1000

\* C7: encode(0) = 1000, encode(6000) = 100, encode(51000) = 850,
\* encode(51001) = 844 and encode(80000) = 960; a nonzero current up to
\* 51000 mA encodes as ma/60 and a larger one as ma/250 + 640, rounded down
\* and clamped to [80, 1000], so that 1000 is reached from 90000 mA on.
C7_Encoding ==
    /\ Encoded(0, 1000)
    /\ Encoded(6000, 100)
    /\ Encoded(51000, 850)
    /\ Encoded(51001, 844)
    /\ Encoded(80000, 960)
    /\ (call.fn = "iec61851_get_duty_cycle_for_ma" /\ call.arg # 0) =>
           /\ call.ret \in 80 .. 1000
           /\ call.arg < 4800 => call.ret = 80
           /\ (4800 <= call.arg /\ call.arg <= 51000) =>
                  (call.ret * 60 <= call.arg /\ call.arg < (call.ret + 1) * 60)
           /\ (51000 < call.arg /\ call.arg < 90000) =>
                  /\ (call.ret - 640) * 250 <= call.arg
                  /\ call.arg < (call.ret - 639) * 250
           /\ call.arg >= 90000 => call.ret = 1000

C7_Witness ==
    /\ call.fn = "iec61851_get_duty_cycle_for_ma"
    /\ call.arg = 80000
    /\ call.ret = 960

---------------------------------------------------------------------------
(* SpecSlots: the slot table written slot by slot, in any order, and the   *)
(* arbitration read in between                                             *)

VariedSlots ==
    {CHARGING_SLOT_INCOMING_CABLE, CHARGING_SLOT_OUTGOING_CABLE,
     CHARGING_SLOT_BUTTON}
SlotCurrents == {0, 6000, 65534, 65535, 70000}

UnchangedMachine ==
    UNCHANGED <<evse, iec61851, ads1118, contactor_check, button, relay, pwm,
                now, trace, op, pre, obs, sweep>>

(* an operation on the slot table between two ticks *)
SlotOp(cs) ==
    /\ cs # charging_slot
    /\ charging_slot' = cs
    /\ trace' = NoTrace
    /\ op' = "write"
    /\ pre' = NoPre
    /\ call' = NoCall
    /\ UNCHANGED <<evse, iec61851, ads1118, contactor_check, button, relay,
                   pwm, now, obs, sweep>>

(* a writer of the table stores one slot *)
SlotWrite(slots, currents) ==
    \E i \in slots, c \in currents, a \in BOOLEAN :
        SlotOp([charging_slot EXCEPT !.max_current[i] = c, !.active[i] = a])

CallGetMaxCurrent ==
    /\ call = NoCall
    /\ call' = [fn |-> "charging_slot_get_max_current",
                arg |-> 0,
                ret |-> charging_slot_get_max_current(charging_slot)]
    /\ UNCHANGED charging_slot
    /\ UnchangedMachine

InitSlots == InitMachine(InitMem("CURRENT_6A", 30001, 220, RunTime), {})

NextSlots ==
    \/ SlotWrite(VariedSlots, SlotCurrents)
    \/ CallGetMaxCurrent

SpecSlots == InitSlots /\ [][NextSlots]_vars

ActiveSlots == {i \in SlotIndex : charging_slot.active[i]}
ActiveCurrents == {charging_slot.max_current[i] : i \in ActiveSlots}
Minimum(S) == CHOOSE x \in S : \A y \in S : x <= y

\* C4 as stated: for every assignment of max_current and active flags,
\* charging_slot_get_max_current returns the minimum max_current over the
\* active slots, and 0 when no slot is active.
C4_MinimumAsStated ==
    call.fn = "charging_slot_get_max_current"
        => call.ret = IF ActiveSlots = {} THEN 0 ELSE Minimum(ActiveCurrents)

\* C4: charging_slot_get_max_current returns the minimum max_current over
\* the active slots when that minimum is below 65535, and 0 when no slot
\* is active or every active slot holds 65535 or more.
C4_Minimum ==
    call.fn = "charging_slot_get_max_current"
        => call.ret = IF ActiveSlots = {} THEN 0
                      ELSE IF Minimum(ActiveCurrents) >= 65535 THEN 0
                      ELSE Minimum(ActiveCurrents)

C4_Witness ==
    /\ call.fn = "charging_slot_get_max_current"
    /\ ActiveSlots = {CHARGING_SLOT_INCOMING_CABLE, CHARGING_SLOT_BUTTON}
    /\ charging_slot.max_current[CHARGING_SLOT_INCOMING_CABLE] = 65535
    /\ charging_slot.max_current[CHARGING_SLOT_BUTTON] = 70000
    /\ call.ret = 0

---------------------------------------------------------------------------
(* SpecArb: the control loop next to the button's slot operations          *)

CallStopChargingByButton ==
    SlotOp(charging_slot_stop_charging_by_button(charging_slot))

CallStartChargingByButton ==
    SlotOp(charging_slot_start_charging_by_button(charging_slot, Mem))

ArbBands == {1790, 10000, 30001}

InitArb == InitMachine(InitMem("CURRENT_6A", 30001, 220, RunTime), {})

NextArb ==
    \/ EvseTick
    \/ AdcCp(ArbBands)
    \/ SamplePeriods
    \/ CallStopChargingByButton
    \/ CallStartChargingByButton

SpecArb == InitArb /\ [][NextArb]_vars

\* C5: a tick that ends in state B or C requests the duty cycle that
\* encodes the ceiling charging_slot_get_max_current returns at that tick,
\* so a slot set to 0 makes the requested duty cycle 1000.
C5_CeilingFeedsDuty ==
    (IecTick /\ trace.set_output /\ iec61851.state \in {"B", "C"})
        => trace.cp_duty_cycle =
               iec61851_get_duty_cycle_for_ma(
                   charging_slot_get_max_current(charging_slot))

---------------------------------------------------------------------------
(* SpecSweep: after any setup of the control loop the CP resistance is     *)
(* swept downwards, one value per evaluated tick                           *)

SweepValues == <<20000, 10001, 10000, 1791, 1790, 301, 300, 151, 150, 0>>
SetupBands == {1790, 10000, 30001}
ManagedCurrents == {0, 16000}

SweepTo(pos, id3) ==
    /\ Machine([Mem EXCEPT !.ads1118.cp_pe_resistance = SweepValues[pos]])
    /\ sweep' = [sweep EXCEPT !.on = TRUE, !.pos = pos, !.id3 = id3]
    /\ trace' = NoTrace
    /\ op' = "write"
    /\ pre' = NoPre
    /\ UNCHANGED <<charging_slot, obs, call>>

SweepStart ==
    /\ ~sweep.on
    /\ contactor_check.error = 0
    /\ evse.config_jumper_current # "UNCONFIGURED"
    /\ ~button.was_pressed
    /\ SweepTo(1, PilotActiveRelayOff(Mem))

(* the next value follows once a tick has evaluated the present one *)
SweepStep ==
    /\ sweep.on
    /\ sweep.pos < Len(SweepValues)
    /\ Ticked
    /\ Evaluated([trace |-> trace])
    /\ SweepTo(sweep.pos + 1, sweep.id3)

InitSweep == InitMachine(InitMem("CURRENT_6A", 30001, 220, RunTime), {})

NextSweep ==
    \/ EvseTick
    \/ SamplePeriods
    \/ (~sweep.on /\ AdcCp(SetupBands))
    \/ (~sweep.on /\ ApiManaged(ManagedCurrents))
    \/ SweepStart
    \/ SweepStep

SpecSweep == InitSweep /\ [][NextSweep]_vars

SweepTick == sweep.on /\ Ticked /\ Evaluated([trace |-> trace])
SweepDone == SweepTick /\ sweep.pos = Len(SweepValues)

---------------------------------------------------------------------------
(* SpecId3: the control loop with a vehicle connected and the clock moving *)
(* in steps well below the ID.3 hold time                                  *)

Id3Step == 100
Id3Steps == 8
Id3Bands == {880, 2700, 20000, 30001}

InitId3 ==
    InitMachine(InitMem("CURRENT_6A", 2700, 220, RunTime), {"spike", "above"})

NextId3 ==
    \/ EvseTick
    \/ AdcCp(Id3Bands)
    \/ SamplePeriods
    \/ AdvanceTime({Id3Step}, RunTime + Id3Steps * Id3Step)

SpecId3 == InitId3 /\ [][NextId3]_vars

EvaluatedTick == IecTick /\ Evaluated([trace |-> trace])
(* the evaluated tick found the pilot active, the relay off and a reading *)
(* above 30000 ohm, for the first time in this period of active pilot      *)
FirstSpikeTick ==
    /\ EvaluatedTick
    /\ PilotActiveRelayOff(pre)
    /\ CpResistance > 30000
    /\ obs.spikes = 1

\* C9: while the pilot duty cycle is not 1000 and the relay is off, a
\* single spike above 30000 ohm leaves the state alone at every evaluated
\* tick less than 500 ms after it was first seen (so a spike of 400 ms that
\* returns to the B band never gives A), and moves the state to A at the
\* first evaluated tick at least 500 ms after it was first seen (so a spike
\* of 600 ms does).
C9_Id3Debounce ==
    /\ (FirstSpikeTick /\ now - obs.spike_seen < 500)
           => iec61851.state = pre.iec61851.state /\ iec61851.state # "A"
    /\ (FirstSpikeTick /\ now - obs.spike_seen >= 500)
           => iec61851.state = "A"
    /\ (EvaluatedTick /\ PilotActiveRelayOff(pre) /\ BandOf(CpResistance) = "B")
           => iec61851.state = "B"

C9_Witness ==
    /\ FirstSpikeTick
    /\ now - obs.spike_seen = 600
    /\ pre.iec61851.state = "B"
    /\ iec61851.state = "A"

(* the evaluated tick found a reading above the A threshold *)
AboveTick == EvaluatedTick /\ CpResistance > 10000

\* C10 as stated: with no fault, a configured jumper, calibration inactive
\* and valid measurements, a reading that stays above 10000 ohm makes the
\* state A at the first evaluated tick when the relay is engaged or the
\* duty cycle is 1000, and by the evaluated tick 500 ms after it was first
\* seen otherwise, also for readings between 10000 and 30000 ohm.
C10_RemovalAsStated ==
    /\ (AboveTick /\ ~PilotActiveRelayOff(pre)) => iec61851.state = "A"
    /\ (AboveTick /\ PilotActiveRelayOff(pre) /\ now - obs.above_seen >= 500)
           => iec61851.state = "A"

\* C10: a reading above 10000 ohm makes the state A at the first evaluated
\* tick when the relay is engaged or the duty cycle is 1000; with the
\* pilot active and the relay off only a reading above 30000 ohm does, no
\* later than the first evaluated tick at least 500 ms after it was first
\* seen, and a reading between 10000 and 30000 ohm keeps state B.
C10_Removal ==
    /\ (AboveTick /\ ~PilotActiveRelayOff(pre)) => iec61851.state = "A"
    /\ (AboveTick /\ PilotActiveRelayOff(pre) /\ CpResistance > 30000
            /\ now - obs.spike_seen >= 500)
           => iec61851.state = "A"
    /\ (AboveTick /\ PilotActiveRelayOff(pre) /\ CpResistance <= 30000)
           => iec61851.state = "B" /\ pre.iec61851.state = "B"

C10_Witness ==
    /\ AboveTick
    /\ PilotActiveRelayOff(pre)
    /\ CpResistance = 20000
    /\ now - obs.above_seen >= 500
    /\ iec61851.state = "B"

---------------------------------------------------------------------------
(* Further properties of the control loop (Spec) *)

Configured(m) ==
    /\ m.evse.calibration_state = 0
    /\ m.contactor_check.error = 0
    /\ m.evse.config_jumper_current # "UNCONFIGURED"

---------------------------------------------------------------------------
(* SpecSlotOps: the operations of charging_slot.c on a slot table whose    *)
(* logical slots are configured in any way, next to the button.  call.arg  *)
(* is what the operation found, call.ret the table it left.                *)

LogicalSlots ==
    {CHARGING_SLOT_OUTGOING_CABLE + 1, CHARGING_SLOT_BUTTON,
     CHARGING_SLOT_LOAD_MANAGEMENT}
ConfiguredCurrents == {0, 6000}

(* the API layer configures one logical slot *)
SlotConfigure(slots, currents) ==
    \E i \in slots, c \in currents, a \in BOOLEAN, d \in BOOLEAN :
        SlotOp([charging_slot EXCEPT !.max_current[i] = c,
                                     !.active[i] = a,
                                     !.clear_on_disconnect[i] = d])

Found(again) ==
    [charging_slot |-> charging_slot,
     was_pressed |-> button.was_pressed,
     again |-> again]

CallSlotOp(fn, cs) ==
    /\ charging_slot' = cs
    /\ call' = [fn |-> fn, arg |-> Found(call.fn = fn), ret |-> cs]
    /\ trace' = NoTrace
    /\ op' = "write"
    /\ pre' = NoPre
    /\ UNCHANGED <<evse, iec61851, ads1118, contactor_check, button, relay,
                   pwm, now, obs, sweep>>

OpStopChargingByButton ==
    CallSlotOp("charging_slot_stop_charging_by_button",
               charging_slot_stop_charging_by_button(charging_slot))

OpStartChargingByButton ==
    CallSlotOp("charging_slot_start_charging_by_button",
               charging_slot_start_charging_by_button(charging_slot, Mem))

OpHandleDisconnect ==
    CallSlotOp("charging_slot_handle_disconnect",
               charging_slot_handle_disconnect(charging_slot))

InitSlotOps == InitMachine(InitMem("CURRENT_6A", 30001, 220, RunTime), {})

NextSlotOps ==
    \/ SlotConfigure(LogicalSlots, ConfiguredCurrents)
    \/ OpStopChargingByButton
    \/ OpStartChargingByButton
    \/ OpHandleDisconnect
    \/ ButtonPress

SpecSlotOps == InitSlotOps /\ [][NextSlotOps]_vars

SameExceptCurrentOf(slots, a, b) ==
    /\ \A i \in SlotIndex \ slots : b.max_current[i] = a.max_current[i]
    /\ b.active = a.active
    /\ b.clear_on_disconnect = a.clear_on_disconnect

StartAllowed(found) ==
    /\ ~found.charging_slot.clear_on_disconnect[CHARGING_SLOT_BUTTON]
    /\ ~found.was_pressed

\* C12: charging_slot_stop_charging_by_button sets the button slot's
\* max_current to 0 and changes nothing else; the start operation sets it
\* to 32000 exactly when the button slot is not clear-on-disconnect and
\* button.was_pressed is false, and otherwise leaves the table unchanged.
C12_ButtonSlotOps ==
    /\ call.fn = "charging_slot_stop_charging_by_button" =>
           /\ call.ret.max_current[CHARGING_SLOT_BUTTON] = 0
           /\ SameExceptCurrentOf({CHARGING_SLOT_BUTTON},
                                  call.arg.charging_slot, call.ret)
    /\ (call.fn = "charging_slot_start_charging_by_button"
            /\ StartAllowed(call.arg)) =>
           /\ call.ret.max_current[CHARGING_SLOT_BUTTON] = 32000
           /\ SameExceptCurrentOf({CHARGING_SLOT_BUTTON},
                                  call.arg.charging_slot, call.ret)
    /\ (call.fn = "charging_slot_start_charging_by_button"
            /\ ~StartAllowed(call.arg)) =>
           call.ret = call.arg.charging_slot

C12_Witness ==
    /\ call.fn = "charging_slot_start_charging_by_button"
    /\ call.arg.was_pressed
    /\ ~call.arg.charging_slot.clear_on_disconnect[CHARGING_SLOT_BUTTON]
    /\ call.arg.charging_slot.max_current[CHARGING_SLOT_BUTTON] = 0
    /\ call.ret.max_current[CHARGING_SLOT_BUTTON] = 0

ClearedSlots(cs) == {i \in SlotIndex : cs.clear_on_disconnect[i]}

\* C13: charging_slot_handle_disconnect sets max_current to 0 for exactly
\* the slots with clear_on_disconnect = true, leaves every other
\* max_current and all flags unchanged, and a second call in a row leaves
\* the table as the first one left it.
C13_HandleDisconnect ==
    call.fn = "charging_slot_handle_disconnect" =>
        /\ \A i \in ClearedSlots(call.arg.charging_slot) :
               call.ret.max_current[i] = 0
        /\ SameExceptCurrentOf(ClearedSlots(call.arg.charging_slot),
                               call.arg.charging_slot, call.ret)
        /\ call.arg.again => call.ret = call.arg.charging_slot

C13_Witness ==
    /\ call.fn = "charging_slot_handle_disconnect"
    /\ call.arg.again
    /\ ClearedSlots(call.ret) =
           {CHARGING_SLOT_BUTTON, CHARGING_SLOT_LOAD_MANAGEMENT}
    /\ call.ret.max_current[CHARGING_SLOT_OUTGOING_CABLE + 1] = 6000
    /\ call.ret.max_current[CHARGING_SLOT_BUTTON] = 0

---------------------------------------------------------------------------
(* SpecGrant: the control loop with a vehicle that starts to charge and    *)
(* is unplugged, next to a slot table with clear-on-disconnect slots       *)

GrantBands == {880, 30001}
GrantCurrents == {16000}

InitGrant == InitMachine(InitMem("CURRENT_6A", 30001, 220, RunTime), {})

NextGrant ==
    \/ EvseTick
    \/ AdcCp(GrantBands)
    \/ SamplePeriods
    \/ SlotConfigure({CHARGING_SLOT_BUTTON, CHARGING_SLOT_LOAD_MANAGEMENT},
                     GrantCurrents)

SpecGrant == InitGrant /\ [][NextGrant]_vars

(* the tick changed the state from another state to A *)
Disconnected == Ticked /\ pre.iec61851.state # "A" /\ iec61851.state = "A"

\* C14: at the end of a tick that changes the state from a non-A state to
\* A every slot with clear_on_disconnect = true has max_current = 0.
C14_DisconnectClears ==
    Disconnected =>
        \A i \in ClearedSlots(charging_slot) : charging_slot.max_current[i] = 0

---------------------------------------------------------------------------
(* SpecManaged: the control loop next to the external manager and the      *)
(* button                                                                  *)

ManagedBands == {880, 2700, 30001}

InitManaged == InitMachine(InitMem("CURRENT_6A", 30001, 220, RunTime), {})

NextManaged ==
    \/ EvseTick
    \/ AdcCp(ManagedBands)
    \/ SamplePeriods
    \/ ApiManaged(ManagedCurrents)
    \/ ButtonPress
    \/ ButtonRelease

SpecManaged == InitManaged /\ [][NextManaged]_vars

ZeroManaged(m) == m.evse.managed /\ m.evse.max_managed_current = 0

\* C20: an evaluated tick with a CP resistance in the C band (300 < R <=
\* 1790) sets state B when the station is managed with max_managed_current
\* = 0 and state C in every other case; no tick that finds the station
\* managed with a zero managed current switches the relay on.
C20_ZeroManagedHoldsB ==
    /\ (EvaluatedTick /\ BandOf(CpResistance) = "C" /\ ZeroManaged(pre))
           => iec61851.state = "B"
    /\ (EvaluatedTick /\ BandOf(CpResistance) = "C" /\ ~ZeroManaged(pre))
           => iec61851.state = "C"
    /\ (Ticked /\ ZeroManaged(pre)) => (relay => pre.relay)

C20_Witness ==
    /\ EvaluatedTick
    /\ CpResistance = 880
    /\ ZeroManaged(pre)
    /\ pre.iec61851.state = "C"
    /\ pre.relay
    /\ iec61851.state = "B"

---------------------------------------------------------------------------
(* SpecPlug: a station with a 32 A supply and a 20 A charging cable, the   *)
(* slot table as charging_slot_init leaves it                              *)

PlugBands == {880, 2000, 30001}

InitPlug ==
    InitMachine(InitMem("CURRENT_32A", 30001, 400, RunTime), {})

NextPlug ==
    \/ EvseTick
    \/ AdcCp(PlugBands)
    \/ SamplePeriods
    \/ ButtonPress
    \/ ButtonRelease
    \/ AdvanceTime({TimeStep}, RunTime + MaxSteps * TimeStep)

SpecPlug == InitPlug /\ [][NextPlug]_vars

(* slots {incoming = 32000, outgoing = 20000, button = 32000}, all active, *)
(* and an evaluated tick with a CP resistance of 2000 ohm                   *)
Scenario1Tick ==
    /\ EvaluatedTick
    /\ CpResistance = 2000
    /\ charging_slot.max_current[CHARGING_SLOT_INCOMING_CABLE] = 32000
    /\ charging_slot.max_current[CHARGING_SLOT_OUTGOING_CABLE] = 20000
    /\ charging_slot.max_current[CHARGING_SLOT_BUTTON] = 32000
    /\ \A i \in {CHARGING_SLOT_INCOMING_CABLE, CHARGING_SLOT_OUTGOING_CABLE,
                 CHARGING_SLOT_BUTTON} : charging_slot.active[i]

(* C16 as the specification states it: the pilot duty cycle is 334 *)
C16_Scenario1AsStated ==
    Scenario1Tick
        => /\ iec61851.state = "B"
           /\ charging_slot_get_max_current(charging_slot) = 20000
           /\ evse_get_cp_duty_cycle(Mem) = 334

\* C16: with slots {incoming = 32000 active, outgoing = 20000 active,
\* button = 32000 active} (32 A jumper, 20 A cable), no fault, no button
\* latch and a valid CP resistance of 2000 ohm, after the tick the state is
\* B, the ceiling is 20000, the relay is off, the requested duty cycle is
\* 333 and the pilot duty cycle is 266 when the relay was off before the
\* tick and 333 when it was engaged.
C16_Scenario1 ==
    Scenario1Tick
        => /\ iec61851.state = "B"
           /\ charging_slot_get_max_current(charging_slot) = 20000
           /\ iec61851_get_max_ma(Mem) = 20000
           /\ Requested(333, FALSE)
           /\ ~relay
           /\ evse_get_cp_duty_cycle(Mem) = IF pre.relay THEN 333 ELSE 266

C16_Witness ==
    /\ Scenario1Tick
    /\ pre.iec61851.state = "A"
    /\ ~pre.relay
    /\ iec61851.state = "B"
    /\ evse_get_cp_duty_cycle(Mem) = 266

---------------------------------------------------------------------------
(* State D and the deferred switch-off, checked under Spec                 *)

StateDTick == Ticked /\ iec61851.state = "D"

(* C17 as the specification states it: the relay is off after every tick  *)
(* in state D                                                              *)
C17_StateDAsStated ==
    StateDTick => evse_get_cp_duty_cycle(Mem) = 1000 /\ ~relay

\* C17: at the end of every tick whose state is D the pilot duty cycle is
\* 1000 and the relay has not been switched on; a tick that actuates state D
\* requests (1000, contactor off), and the relay is still engaged after it
\* only if it was engaged before and the switch-off is deferred, that is,
\* evse.contactor_turn_off_time is set and less than 3000 ms old.
C17_StateD ==
    StateDTick
        => /\ evse_get_cp_duty_cycle(Mem) = 1000
           /\ relay => pre.relay
           /\ trace.set_output
                  => /\ Requested(1000, FALSE)
                     /\ relay
                            => /\ CpResistance <= 1790
                               /\ evse.contactor_turn_off_time # 0
                               /\ now - evse.contactor_turn_off_time < 3000

C17_Witness ==
    /\ StateDTick
    /\ pre.iec61851.state = "C"
    /\ pre.relay
    /\ trace.set_output
    /\ relay
    /\ evse.contactor_turn_off_time = now

\* C18: after every tick that sets the output, evse.contactor_turn_off_time
\* is nonzero only if a switch-off is being deferred: the relay is engaged
\* and the tick asked for contactor off with duty cycle 0 or 1000; it is 0
\* after the relay has been switched off and after a tick whose intent is
\* contactor on.
C18_DeferralRecord ==
    (Ticked /\ trace.set_output /\ evse.contactor_turn_off_time # 0)
        => /\ relay
           /\ ~trace.contactor
           /\ trace.cp_duty_cycle \in {0, 1000}

\* C19: while the pilot duty cycle is not 1000 and the relay is off, an
\* evaluated tick moves the state to A because of a reading above 30000 ohm
\* only if every evaluated tick of the preceding 500 ms or more found a
\* reading above 30000 ohm: a reading at or below 30000 ohm restarts the
\* hold time, so a second short spike after a normal reading never gives A.
C19_HoldRestarts ==
    (/\ EvaluatedTick
     /\ PilotActiveRelayOff(pre)
     /\ CpResistance > 30000
     /\ pre.iec61851.state # "A"
     /\ iec61851.state = "A")
        => now - obs.spike_seen >= 500

---------------------------------------------------------------------------
(* SpecCal: the control loop with every input of the if-chain of           *)
(* iec61851_tick changing between ticks, calibration included              *)

CalBands == {880, 2700, 30001}

InitCal == InitMachine(InitMem("CURRENT_6A", 30001, 220, RunTime), {})

NextCal ==
    \/ EvseTick
    \/ AdcCp(CalBands)
    \/ SamplePeriods
    \/ ApiCalibration
    \/ ContactorCheck
    \/ ButtonPress
    \/ ButtonRelease
    \/ Jumper(Jumpers)

SpecCal == InitCal /\ [][NextCal]_vars

CalibrationTick == Ticked /\ pre.evse.calibration_state # 0

\* C21: a tick with evse.calibration_state # 0 does not evaluate the state
\* machine: iec61851.state, last_state_change, the pilot duty cycle, the
\* relay, contactor_turn_off_time and the three invalid counters are as the
\* tick found them, also with a contactor error, an unconfigured jumper or
\* the button latch present.
C21_CalibrationFreeze ==
    CalibrationTick
        => /\ trace.ran = "calibration"
           /\ ~trace.set_output
           /\ iec61851 = pre.iec61851
           /\ pwm = pre.pwm
           /\ relay = pre.relay
           /\ evse.contactor_turn_off_time = pre.evse.contactor_turn_off_time
           /\ ads1118 = pre.ads1118
           /\ contactor_check = pre.contactor_check
           /\ button = pre.button

C21_Witness ==
    /\ CalibrationTick
    /\ contactor_check.error # 0
    /\ button.was_pressed
    /\ iec61851.state = "C"
    /\ relay

InvalidTick == Ticked /\ pre.ads1118.cp_invalid_counter > 0

(* C22 as the specification states it: every tick that finds the CP       *)
(* invalid counter nonzero leaves state and output alone                   *)
C22_InvalidGuardAsStated ==
    InvalidTick
        => /\ ~trace.set_output
           /\ iec61851.state = pre.iec61851.state
           /\ iec61851.last_state_change = pre.iec61851.last_state_change
           /\ pwm = pre.pwm
           /\ relay = pre.relay

\* C22: a tick that finds the CP invalid counter nonzero, no contactor
\* error, a configured jumper and no button latch skips the evaluation: no
\* actuation is computed and the state, the last-transition timestamp, the
\* pilot duty cycle and the relay are as before the tick; with a contactor
\* error, an unconfigured jumper or the button latch the state machine sets
\* EF or A and actuates whatever the counter is.
C22_InvalidGuard ==
    /\ (InvalidTick /\ Configured([pre EXCEPT !.evse.calibration_state = 0])
           /\ ~pre.button.was_pressed)
           => /\ ~trace.set_output
              /\ iec61851 = pre.iec61851
              /\ pwm = pre.pwm
              /\ relay = pre.relay
              /\ ads1118 = pre.ads1118
    /\ (InvalidTick /\ IecTick
           /\ ~(Configured(pre) /\ ~pre.button.was_pressed))
           => /\ trace.set_output
              /\ iec61851.state \in {"EF", "A"}
              /\ evse_get_cp_duty_cycle(Mem) = 1000

C22_Witness ==
    /\ InvalidTick
    /\ trace.branch = "invalid"
    /\ CpResistance = 30001
    /\ iec61851.state = "C"
    /\ relay

---------------------------------------------------------------------------
(* SpecFixed: charging_slot_tick next to the inputs of the two cable slots *)

PpBands == {100, 220, 400, 1200}
SoftwareCurrents == {6000, 16000}

(* the ADC driver stores a new PP/PE resistance *)
AdcPp(values) ==
    \E r \in values : Write([Mem EXCEPT !.ads1118.pp_pe_resistance = r])

(* the configuration layer stores the software-configured current *)
ApiJumperSoftware(currents) ==
    \E c \in currents :
        Write([Mem EXCEPT !.evse.config_jumper_current_software = c])

(* the control loop calls charging_slot_tick *)
CallSlotTick ==
    /\ charging_slot' = charging_slot_tick(charging_slot, Mem)
    /\ op' = "charging_slot_tick"
    /\ trace' = NoTrace
    /\ pre' = NoPre
    /\ call' = NoCall
    /\ UNCHANGED <<evse, iec61851, ads1118, contactor_check, button, relay,
                   pwm, now, obs, sweep>>

InitFixed == InitMachine(InitMem("CURRENT_6A", 30001, 220, RunTime), {})

NextFixed ==
    \/ CallSlotTick
    \/ AdcPp(PpBands)
    \/ Jumper(EVSE_CONFIG_JUMPERS)
    \/ ApiJumperSoftware(SoftwareCurrents)

SpecFixed == InitFixed /\ [][NextFixed]_vars

\* C23: after every charging_slot_tick the max_current of slot 0 (incoming
\* cable) is the jumper lookup of the current evse.config_jumper_current
\* and the max_current of slot 1 (outgoing cable) is the classification of
\* the PP resistance, so a change of the jumper or of the software-
\* configured current shows in slot 0 within one tick.
C23_FixedSlots ==
    op = "charging_slot_tick"
        => /\ charging_slot.max_current[CHARGING_SLOT_INCOMING_CABLE]
                  = charging_slot_get_ma_incoming_cable(Mem)
           /\ charging_slot.max_current[CHARGING_SLOT_OUTGOING_CABLE]
                  = iec61851_get_ma_from_pp_resistance(Mem)

---------------------------------------------------------------------------
(* The output stage, checked under Spec                                    *)

OutputTick == Ticked /\ trace.set_output
Deferred == OutputTick /\ pre.relay /\ ~trace.contactor /\ relay
Applied(requested) ==
    IF ~pre.relay /\ requested \notin {0, 1000} THEN 266 ELSE requested

\* C24: every tick that calls evse_set_output leaves the pilot at the duty
\* cycle the call applies, also when the switch of the contactor is
\* deferred: the requested value, or 266 when the relay was off at the call
\* and the requested value is neither 0 nor 1000.
C24_DutyApplied ==
    OutputTick => evse_get_cp_duty_cycle(Mem) = Applied(trace.cp_duty_cycle)

C24_Witness ==
    /\ Deferred
    /\ evse_get_cp_duty_cycle(pre) = 100
    /\ trace.cp_duty_cycle = 1000
    /\ evse_get_cp_duty_cycle(Mem) = 1000

DutyChanged == pwm # pre.pwm
Counters(m) ==
    <<m.ads1118.cp_invalid_counter, m.ads1118.pp_invalid_counter,
      m.contactor_check.invalid_counter>>

\* C25: a tick that changes the relay leaves cp_invalid_counter >= 4,
\* pp_invalid_counter >= 4 and contactor_check.invalid_counter >= 5; a tick
\* that changes the applied duty cycle leaves cp_invalid_counter >= 2; no
\* tick lowers any of the three counters, and a tick that changes neither
\* relay nor duty cycle leaves them as they were.
C25_Blackout ==
    /\ (Ticked /\ relay # pre.relay)
           => /\ ads1118.cp_invalid_counter >= 4
              /\ ads1118.pp_invalid_counter >= 4
              /\ contactor_check.invalid_counter >= 5
    /\ (Ticked /\ DutyChanged) => ads1118.cp_invalid_counter >= 2
    /\ Ticked => \A i \in 1 .. 3 : Counters(Mem)[i] >= Counters(pre)[i]
    /\ (Ticked /\ relay = pre.relay /\ ~DutyChanged)
           => Counters(Mem) = Counters(pre)

C25_Witness ==
    /\ Ticked
    /\ ~pre.relay
    /\ relay
    /\ DutyChanged
    /\ Counters(pre) = <<0, 0, 0>>
    /\ Counters(Mem) = <<4, 4, 5>>

---------------------------------------------------------------------------
(* SpecStartup: the control loop from evse_init on, with a vehicle, a      *)
(* contactor error and the button present during the startup hold          *)

StartupStep == 4000
StartupSteps == 4
StartupBands == {880, 30001}

InitStartup == InitMachine(InitMem("CURRENT_6A", 880, 220, StartupTime), {})

NextStartup ==
    \/ EvseTick
    \/ AdcCp(StartupBands)
    \/ SamplePeriods
    \/ ContactorCheck
    \/ ButtonPress
    \/ ButtonRelease
    \/ AdvanceTime({StartupStep}, StartupTime + StartupSteps * StartupStep)

SpecStartup == InitStartup /\ [][NextStartup]_vars

HoldTick ==
    /\ Ticked
    /\ pre.evse.startup_time # 0
    /\ now - pre.evse.startup_time < 12000

\* C26: a tick less than 12000 ms after evse_init does not run the state
\* machine: the state is A, the relay is off and the pilot PWM has its init
\* value, whatever the CP resistance, the contactor error and the button
\* are; the first tick at or after 12000 ms ends the hold (startup_time
\* becomes 0) and no later tick applies it again.
C26_StartupHold ==
    /\ HoldTick
           => /\ trace.ran = "startup"
              /\ ~trace.set_output
              /\ iec61851.state = "A"
              /\ ~relay
              /\ pwm = 0
              /\ evse.startup_time = pre.evse.startup_time
    /\ (Ticked /\ ~HoldTick)
           => /\ trace.ran # "startup"
              /\ evse.startup_time = 0
    /\ evse.startup_time \in {0, StartupTime}
    /\ evse.startup_time # 0 => iec61851.state = "A" /\ ~relay /\ pwm = 0

C26_Witness ==
    /\ HoldTick
    /\ now - pre.evse.startup_time = 2 * StartupStep
    /\ CpResistance = 880
    /\ contactor_check.error # 0
    /\ button.was_pressed
    /\ iec61851.state = "A"

---------------------------------------------------------------------------
(* The relay under SpecCal                                                 *)

SwitchOnGuard ==
    /\ evse.calibration_state = 0
    /\ contactor_check.error = 0
    /\ evse.config_jumper_current # "UNCONFIGURED"
    /\ ~button.was_pressed
    /\ ads1118.cp_invalid_counter = 0
    /\ BandOf(CpResistance) = "C"

\* C27: the relay changes from off to on only in a step that is a tick
\* which finds calibration inactive, contactor_check.error = 0, a
\* configured jumper, button.was_pressed false, the CP invalid counter 0
\* and the CP resistance in the C band (300 < R <= 1790), and which ends in
\* state C.
C27_SwitchOnGuarded ==
    [][(~relay /\ relay')
           => /\ op' = "evse_tick"
              /\ SwitchOnGuard
              /\ iec61851'.state = "C"]_vars

C27_Witness ==
    /\ Ticked
    /\ ~pre.relay
    /\ relay
    /\ pre.iec61851.state = "A"
    /\ iec61851.state = "C"
    /\ CpResistance = 880

\* C28: at the end of every tick that set the output and leaves the relay
\* engaged, the tick that switches the relay on included, the duty cycle
\* applied to the pilot is 1000 or at most the duty cycle the state machine
\* requested in that tick.
C28_NoOverAdvertisedCurrent ==
    (OutputTick /\ relay)
        => \/ evse_get_cp_duty_cycle(Mem) = 1000
           \/ evse_get_cp_duty_cycle(Mem) <= trace.cp_duty_cycle

---------------------------------------------------------------------------
(* SpecAuto: the control loop next to the autostart setting and the button *)

AutoBands == {880, 2700, 30001}

InitAuto == InitMachine(InitMem("CURRENT_6A", 30001, 220, RunTime), {})

NextAuto ==
    \/ EvseTick
    \/ AdcCp(AutoBands)
    \/ SamplePeriods
    \/ ApiAutostart
    \/ ButtonPress
    \/ ButtonRelease

SpecAuto == InitAuto /\ [][NextAuto]_vars

\* C29: a tick that changes the state from a non-A state to A while
\* evse.charging_autostart is false leaves button.was_pressed set, so that
\* the next tick is held at A by the manual-stop branch; with
\* charging_autostart true a tick that changes to A does not set the latch,
\* and no tick that ends in B, C, D or EF sets it.
C29_AutostartLatch ==
    /\ (Disconnected /\ ~pre.evse.charging_autostart) => button.was_pressed
    /\ (Disconnected /\ pre.evse.charging_autostart /\ ~pre.button.was_pressed)
           => ~button.was_pressed
    /\ (Ticked /\ iec61851.state # "A" /\ ~pre.button.was_pressed)
           => ~button.was_pressed

---------------------------------------------------------------------------
(* The direction of the ceiling, checked under SpecSlots                   *)

\* C30: for every slot table, max_current values of 65535 and more
\* included, the value charging_slot_get_max_current returns is less than
\* or equal to the max_current of every active slot.
C30_CeilingNotAbove ==
    call.fn = "charging_slot_get_max_current"
        => \A i \in ActiveSlots : call.ret <= charging_slot.max_current[i]

C30_Witness ==
    /\ call.fn = "charging_slot_get_max_current"
    /\ ActiveSlots = {CHARGING_SLOT_INCOMING_CABLE, CHARGING_SLOT_OUTGOING_CABLE,
                      CHARGING_SLOT_BUTTON}
    /\ charging_slot.max_current[CHARGING_SLOT_INCOMING_CABLE] = 70000
    /\ charging_slot.max_current[CHARGING_SLOT_OUTGOING_CABLE] = 65534
    /\ charging_slot.max_current[CHARGING_SLOT_BUTTON] = 65535
    /\ call.ret = 65534

===========================================================================
